---- MODULE Spec2Model ----
(***************************************************************************)
(* Model of the limit order book matching engine of src/src/arbiter.rs:    *)
(* OrderBook (match_limit, handle_cancel) and MatchingEngine (handle).     *)
(* One action per kind of OrderEvent; each action is the whole of          *)
(* MatchingEngine::handle for that event.                                  *)
(***************************************************************************)
EXTENDS Integers, Sequences, FiniteSets, TLC

\* ---------------------------------------------------------------- bounds
MaxId     == 2
MaxSymbol == 2
MaxPrice  == 2
MaxSize   == 2
MaxEvents == 3

\* u32::MAX, the size Replace passes to handle_cancel.  TLC's integers are
\* 32 bits signed, so the largest of them stands for it; the code only
\* compares it with order sizes (size >= o.size).
U32_MAX == 2147483647

Ids     == 1..MaxId
Symbols == 1..MaxSymbol
Prices  == 1..MaxPrice
Sizes   == 0..MaxSize

\* enum Side { Buy, Sell }
Side == {"Buy", "Sell"}

VARIABLES
    run,        \* where the running call of match_limit stands (SpecStep)
    books,      \* MatchingEngine.books:  symbol -> OrderBook
    id_map,     \* MatchingEngine.id_map: order id -> (symbol, side)
    stats,      \* MatchingEngine.stats:  the three event counters
    lastEv,     \* the event handled by the last call of handle
    ccall,      \* the call of handle_cancel made by the last event, if any
    mcall,      \* the call of match_limit made by the last event, if any
    noReuse,    \* no New/Replace so far carried an id that was resting
    filled      \* the ids whose order was fully filled and not issued again

vars == <<run, books, id_map, stats, lastEv, ccall, mcall, noReuse, filled>>

\* ------------------------------------------------- maps (HashMap, BTreeMap)
EmptyMap == <<>>

MapInsert(m, k, v) == [x \in DOMAIN m \cup {k} |-> IF x = k THEN v ELSE m[x]]

MapRemove(m, k) == [x \in DOMAIN m \ {k} |-> m[x]]

Min(a, b) == IF a <= b THEN a ELSE b

\* ----------------------------------------------------------------- Order
Order(id, side, price, size, timestamp) ==
    [id |-> id, side |-> side, price |-> price, size |-> size,
     timestamp |-> timestamp]

\* OrderBook::new
NewBook == [bids |-> EmptyMap, asks |-> EmptyMap, index |-> EmptyMap]

\* ------------------------------------------------------------ match_limit
\* TradeQty without the min: the whole remainder is traded with the order
\* at the front
TradeQty_Remaining(remaining, restingSize) == remaining

\* remaining.min(resting.size)
TradeQty(remaining, restingSize) == Min(remaining, restingSize)

\* BestAsk with next_back for next, as the Sell arm has it for the bids
BestAsk_Highest(asks) ==
    IF DOMAIN asks = {} THEN 0
    ELSE CHOOSE p \in DOMAIN asks : \A q \in DOMAIN asks : p >= q

\* self.asks.iter().next(): the lowest ask price, 0 when there is none
BestAsk(asks) ==
    IF DOMAIN asks = {} THEN 0
    ELSE CHOOSE p \in DOMAIN asks : \A q \in DOMAIN asks : p <= q

\* self.bids.iter().next_back(): the highest bid price, 0 when there is none
BestBid(bids) ==
    IF DOMAIN bids = {} THEN 0
    ELSE CHOOSE p \in DOMAIN bids : \A q \in DOMAIN bids : p >= q

\* Crosses with strict comparisons: an order at the best opposite price does
\* not trade
Crosses_Strict(side, levels, limit) ==
    /\ DOMAIN levels # {}
    /\ IF side = "Buy" THEN BestAsk(levels) < limit
                       ELSE BestBid(levels) > limit

\* Some(p) if p <= incoming.price  /  Some(p) if p >= incoming.price
Crosses(side, levels, limit) ==
    /\ DOMAIN levels # {}
    /\ IF side = "Buy" THEN BestAsk(levels) <= limit
                       ELSE BestBid(levels) >= limit

\* RestingAfter that takes every trade for a full fill
RestingAfter_Zero(size, trade_qty) == 0

\* resting.size -= trade_qty
RestingAfter(size, trade_qty) == size - trade_qty

\* remaining -= trade_qty
RemainingAfter(remaining, trade_qty) == remaining - trade_qty

\* FrontPos taking the back of the queue (back_mut / pop_back)
FrontPos_Back(queue) == Len(queue)

\* the position queue.front_mut() and queue.pop_front() work on
FrontPos(queue) == 1

RemoveAt(queue, k) ==
    [i \in 1..(Len(queue) - 1) |-> IF i < k THEN queue[i] ELSE queue[i + 1]]

\* One iteration of "while remaining > 0 && !queue.is_empty()": trade with
\* the order at the front, pop it (and drop it from the index) if nothing of
\* it is left.  d is [queue, remaining, index, fills].
DrainOne(d) ==
    LET k         == FrontPos(d.queue)
        resting   == d.queue[k]
        trade_qty == TradeQty(d.remaining, resting.size)
        newSize   == RestingAfter(resting.size, trade_qty)
        fill      == [id |-> resting.id, timestamp |-> resting.timestamp,
                      price |-> resting.price, qty |-> trade_qty,
                      left |-> newSize,
                      rem |-> RemainingAfter(d.remaining, trade_qty)]
    IN  [queue     |-> IF newSize = 0
                       THEN RemoveAt(d.queue, k)
                       ELSE [d.queue EXCEPT ![k].size = newSize],
         remaining |-> RemainingAfter(d.remaining, trade_qty),
         index     |-> IF newSize = 0
                       THEN MapRemove(d.index, resting.id)
                       ELSE d.index,
         fills     |-> Append(d.fills, fill)]

\* the guard of the inner loop
DrainGoesOn(d) == d.remaining > 0 /\ d.queue # <<>>

\* The inner loop over the queue of one level.
RECURSIVE DrainQueue(_)
DrainQueue(d) == IF DrainGoesOn(d) THEN DrainQueue(DrainOne(d)) ELSE d

\* RemoveIfEmpty without the removal: the level stays
RemoveIfEmpty_Never(levels, price) == levels

\* if queue.is_empty() { levels.remove(&price); }
RemoveIfEmpty(levels, price) ==
    IF price \in DOMAIN levels /\ levels[price] = <<>>
    THEN MapRemove(levels, price)
    ELSE levels

\* LoopEnds that never breaks: the loop goes on until no level crosses
LoopEnds_Never(remaining) == FALSE

\* if remaining == 0 { break; }
LoopEnds(remaining) == remaining = 0

\* The outer loop over the levels of the opposite side.
\* c is [levels, remaining, index, fills].
RECURSIVE CrossLevels(_, _, _)

\* One level drained (d): drop the level if it is empty, stop if nothing
\* remains, otherwise look at the next best level.
AfterLevel(side, limit, levels, price, d) ==
    LET next == [levels    |-> RemoveIfEmpty(
                                 [levels EXCEPT ![price] = d.queue], price),
                 remaining |-> d.remaining,
                 index     |-> d.index,
                 fills     |-> d.fills]
    IN  IF LoopEnds(d.remaining) THEN next
        ELSE CrossLevels(side, limit, next)

CrossLevels(side, limit, c) ==
    IF ~Crosses(side, c.levels, limit) THEN c
    ELSE LET price == IF side = "Buy" THEN BestAsk(c.levels)
                                      ELSE BestBid(c.levels)
         IN  AfterLevel(side, limit, c.levels, price,
                        DrainQueue([queue     |-> c.levels[price],
                                    remaining |-> c.remaining,
                                    index     |-> c.index,
                                    fills     |-> c.fills]))

\* PushBack putting the order at the front of the queue
PushBack_Front(queue, o) == <<o>> \o queue

\* level.push_back(incoming.clone())
PushBack(queue, o) == Append(queue, o)

\* InsertLeftover with the Sell arm resting its leftover in self.bids, as the
\* Buy arm does
InsertLeftover_IntoBids(book, incoming, remaining) ==
    IF remaining > 0
    THEN LET o   == [incoming EXCEPT !.size = remaining]
             lvl == IF incoming.price \in DOMAIN book.bids
                    THEN book.bids[incoming.price] ELSE <<>>
         IN  [book EXCEPT
                !.bids  = MapInsert(book.bids, incoming.price, Append(lvl, o)),
                !.index = MapInsert(book.index, incoming.id,
                            [side |-> incoming.side, price |-> incoming.price])]
    ELSE book

\* Insert leftover as resting order: entry(price).or_default().push_back,
\* index.insert(id, (side, price)).
InsertLeftover(book, incoming, remaining) ==
    IF remaining > 0
    THEN LET o    == [incoming EXCEPT !.size = remaining]
             own  == IF incoming.side = "Buy" THEN book.bids ELSE book.asks
             lvl  == IF incoming.price \in DOMAIN own
                     THEN own[incoming.price] ELSE <<>>
             own2 == MapInsert(own, incoming.price, PushBack(lvl, o))
             idx  == MapInsert(book.index, incoming.id,
                               [side |-> incoming.side, price |-> incoming.price])
         IN  IF incoming.side = "Buy"
             THEN [book EXCEPT !.bids = own2, !.index = idx]
             ELSE [book EXCEPT !.asks = own2, !.index = idx]
    ELSE book

\* The book once the loop has ended with c, and the leftover inserted.
AfterCross(book, incoming, c) ==
    [book      |-> InsertLeftover(
                     IF incoming.side = "Buy"
                     THEN [book EXCEPT !.asks = c.levels, !.index = c.index]
                     ELSE [book EXCEPT !.bids = c.levels, !.index = c.index],
                     incoming, c.remaining),
     remaining |-> c.remaining,
     fills     |-> c.fills]

\* OrderBook::match_limit: [book, remaining, fills]
MatchLimit(book, incoming) ==
    AfterCross(book, incoming,
               CrossLevels(incoming.side, incoming.price,
                           [levels    |-> IF incoming.side = "Buy"
                                          THEN book.asks ELSE book.bids,
                            remaining |-> incoming.size,
                            index     |-> book.index,
                            fills     |-> <<>>]))

\* ---------------------------------------------------------- handle_cancel
\* FullCancel with > for >=: a cancel of exactly the remaining size is partial
FullCancel_Strict(size, o) == size > o.size

\* size >= o.size: fully cancel
FullCancel(size, o) == size >= o.size

\* RetainMut that takes a partly cancelled order out and pushes it back at
\* the end of the queue
RetainMut_ToBack(queue, id, size) ==
    LET Other(o) == o.id # id
        Part(o)  == o.id = id /\ ~FullCancel(size, o)
        part     == SelectSeq(queue, Part)
    IN  SelectSeq(queue, Other)
        \o [i \in 1..Len(part) |-> [part[i] EXCEPT !.size = @ - size]]

\* queue.retain_mut(|o| ...)
RECURSIVE RetainMut(_, _, _)
RetainMut(queue, id, size) ==
    IF queue = <<>> THEN <<>>
    ELSE (IF Head(queue).id = id
          THEN IF FullCancel(size, Head(queue)) THEN <<>>
               ELSE <<[Head(queue) EXCEPT !.size = @ - size]>>
          ELSE <<Head(queue)>>) \o RetainMut(Tail(queue), id, size)

\* q.iter().any(|o| o.id == id)
AnyId(queue, id) == \E i \in 1..Len(queue) : queue[i].id = id

\* if let Some(queue) = book_side.get_mut(&price) { retain_mut; remove if empty }
CancelInSide(levels, price, id, size) ==
    IF price \in DOMAIN levels
    THEN RemoveIfEmpty(
           [levels EXCEPT ![price] = RetainMut(levels[price], id, size)], price)
    ELSE levels

\* "Remove from index if no longer present": b2 is the book after retain_mut
AfterRetain(b2, side, price, id) ==
    LET lv == IF side = "Buy" THEN b2.bids ELSE b2.asks
    IN  IF ~(price \in DOMAIN lv /\ AnyId(lv[price], id))
        THEN [book |-> [b2 EXCEPT !.index = MapRemove(b2.index, id)],
              ret  |-> TRUE]
        ELSE [book |-> b2, ret |-> FALSE]

\* OrderBook::handle_cancel: [book, ret]
HandleCancelBook(book, id, size) ==
    IF id \in DOMAIN book.index
    THEN LET side  == book.index[id].side
             price == book.index[id].price
         IN  AfterRetain(
               IF side = "Buy"
               THEN [book EXCEPT !.bids = CancelInSide(book.bids, price, id, size)]
               ELSE [book EXCEPT !.asks = CancelInSide(book.asks, price, id, size)],
               side, price, id)
    ELSE [book |-> book, ret |-> FALSE]

\* ------------------------------------------------------- ghost records
NoOrder == Order(0, "Buy", 0, 0, 0)

NoCancelCall ==
    [called |-> FALSE, symbol |-> 0, id |-> 0, size |-> 0,
     pre |-> NewBook, post |-> NewBook, ret |-> FALSE]

NoMatchCall ==
    [called |-> FALSE, symbol |-> 0, incoming |-> NoOrder,
     pre |-> NewBook, fills |-> <<>>, remaining |-> 0]

NoEvent ==
    [kind |-> "None", id |-> 0, new_id |-> 0, symbol |-> 0, side |-> "Buy",
     price |-> 0, size |-> 0, hit |-> FALSE]

\* no call of match_limit is running
NotRunning ==
    [pc |-> "idle", symbol |-> 0, incoming |-> NoOrder, pre |-> NewBook,
     price |-> 0, remaining |-> 0]

\* ------------------------------------------------------- MatchingEngine
\* MatchingEngine::new
NewStats == [total_new |-> 0, total_cancel |-> 0, total_replace |-> 0]

Handled == stats.total_new + stats.total_cancel + stats.total_replace

\* OrderEvent.timestamp: the feed delivers events in arrival order, so the
\* arrival ordinal of the event stands for its timestamp.
Timestamp == Handled + 1

\* the orders resting in one side of a book, with their place
RestingOn(levels, side) ==
    UNION {{[side |-> side, price |-> p, pos |-> i, order |-> levels[p][i]] :
              i \in 1..Len(levels[p])} : p \in DOMAIN levels}

RestingIn(book) == RestingOn(book.bids, "Buy") \cup RestingOn(book.asks, "Sell")

\* an order with this id rests in some book of bs
IdRests(bs, id) ==
    \E s \in DOMAIN bs : \E r \in RestingIn(bs[s]) : r.order.id = id

\* Count taking a Replace for the Cancel it starts with
Count_ReplaceAsCancel(st, kind) ==
    IF kind = "New" THEN [st EXCEPT !.total_new = @ + 1]
    ELSE [st EXCEPT !.total_cancel = @ + 1]

\* "Update stats": the counter of the event's kind goes up by one
Count(st, kind) ==
    IF kind = "New" THEN [st EXCEPT !.total_new = @ + 1]
    ELSE IF kind = "Cancel" THEN [st EXCEPT !.total_cancel = @ + 1]
    ELSE [st EXCEPT !.total_replace = @ + 1]

\* NewDone recording the id in id_map only if the order rests
NewDone_OnlyIfResting(bs, im, id, symbol, side, book, order, m) ==
    [books  |-> MapInsert(bs, symbol, m.book),
     id_map |-> IF m.remaining > 0
                THEN MapInsert(im, id, [symbol |-> symbol, side |-> side])
                ELSE im,
     ccall  |-> NoCancelCall,
     mcall  |-> [called |-> TRUE, symbol |-> symbol, incoming |-> order,
                 pre |-> book, fills |-> m.fills, remaining |-> m.remaining]]

\* what the New arm leaves, m being the result of match_limit
NewDone(bs, im, id, symbol, side, book, order, m) ==
    [books  |-> MapInsert(bs, symbol, m.book),
     id_map |-> MapInsert(im, id, [symbol |-> symbol, side |-> side]),
     ccall  |-> NoCancelCall,
     mcall  |-> [called |-> TRUE, symbol |-> symbol, incoming |-> order,
                 pre |-> book, fills |-> m.fills, remaining |-> m.remaining]]

\* books.entry(symbol).or_insert_with(OrderBook::new)
BookOf(bs, symbol) == IF symbol \in DOMAIN bs THEN bs[symbol] ELSE NewBook

\* EngineNew with one book for all symbols: the order goes to the book of
\* the first symbol
EngineNew_OneBook(bs, im, timestamp, id, symbol, side, price, size) ==
    NewDone(bs, im, id, 1, side, BookOf(bs, 1),
            Order(id, side, price, size, timestamp),
            MatchLimit(BookOf(bs, 1),
                       Order(id, side, price, size, timestamp)))

\* handle, New arm (after the counters): [books, id_map, ccall, mcall]
EngineNew(bs, im, timestamp, id, symbol, side, price, size) ==
    NewDone(bs, im, id, symbol, side, BookOf(bs, symbol),
            Order(id, side, price, size, timestamp),
            MatchLimit(BookOf(bs, symbol),
                       Order(id, side, price, size, timestamp)))

\* CancelDone erasing the id from id_map whatever handle_cancel returns
CancelDone_AlwaysErase(bs, im, id, size, symbol, r) ==
    [books  |-> [bs EXCEPT ![symbol] = r.book],
     id_map |-> MapRemove(im, id),
     ccall  |-> [called |-> TRUE, symbol |-> symbol, id |-> id,
                 size |-> size, pre |-> bs[symbol], post |-> r.book,
                 ret |-> r.ret],
     mcall  |-> NoMatchCall]

\* what the Cancel arm leaves, r being the result of handle_cancel
CancelDone(bs, im, id, size, symbol, r) ==
    [books  |-> [bs EXCEPT ![symbol] = r.book],
     id_map |-> IF r.ret THEN MapRemove(im, id) ELSE im,
     ccall  |-> [called |-> TRUE, symbol |-> symbol, id |-> id,
                 size |-> size, pre |-> bs[symbol], post |-> r.book,
                 ret |-> r.ret],
     mcall  |-> NoMatchCall]

\* an arm whose lookup in id_map (or books) misses
Dropped(bs, im) ==
    [books |-> bs, id_map |-> im, ccall |-> NoCancelCall, mcall |-> NoMatchCall]

\* handle, Cancel arm (after the counters)
EngineCancel(bs, im, id, size) ==
    IF id \in DOMAIN im /\ im[id].symbol \in DOMAIN bs
    THEN CancelDone(bs, im, id, size, im[id].symbol,
                    HandleCancelBook(bs[im[id].symbol], id, size))
    ELSE Dropped(bs, im)

\* what the Replace arm leaves, r being the result of handle_cancel and m
\* that of match_limit
ReplaceDone(bs, im, old_id, new_id, symbol, side, order, r, m) ==
    [books  |-> [bs EXCEPT ![symbol] = m.book],
     id_map |-> MapInsert(MapRemove(im, old_id), new_id,
                          [symbol |-> symbol, side |-> side]),
     ccall  |-> [called |-> TRUE, symbol |-> symbol, id |-> old_id,
                 size |-> U32_MAX, pre |-> bs[symbol],
                 post |-> r.book, ret |-> r.ret],
     mcall  |-> [called |-> TRUE, symbol |-> symbol,
                 incoming |-> order, pre |-> r.book,
                 fills |-> m.fills, remaining |-> m.remaining]]

\* the Replace arm after "Cancel old fully"
ReplaceInsert(bs, im, old_id, new_id, symbol, side, order, r) ==
    ReplaceDone(bs, im, old_id, new_id, symbol, side, order, r,
                MatchLimit(r.book, order))

\* EngineReplace cancelling new_size of the old order, not u32::MAX
EngineReplace_CancelNewSize(bs, im, timestamp, old_id, new_id, new_size, new_price) ==
    IF old_id \in DOMAIN im /\ im[old_id].symbol \in DOMAIN bs
    THEN ReplaceInsert(bs, im, old_id, new_id, im[old_id].symbol,
                       im[old_id].side,
                       Order(new_id, im[old_id].side, new_price, new_size,
                             timestamp),
                       HandleCancelBook(bs[im[old_id].symbol], old_id, new_size))
    ELSE Dropped(bs, im)

\* handle, Replace arm (after the counters)
EngineReplace(bs, im, timestamp, old_id, new_id, new_size, new_price) ==
    IF old_id \in DOMAIN im /\ im[old_id].symbol \in DOMAIN bs
    THEN ReplaceInsert(bs, im, old_id, new_id, im[old_id].symbol,
                       im[old_id].side,
                       Order(new_id, im[old_id].side, new_price, new_size,
                             timestamp),
                       HandleCancelBook(bs[im[old_id].symbol], old_id, U32_MAX))
    ELSE Dropped(bs, im)

\* the ids fully filled once match_limit call m has run: the incoming id is
\* issued anew, the resting orders traded down to nothing are filled, and so
\* is an incoming order of positive size with nothing left
FilledAfter(f, m) ==
    IF ~m.called THEN f
    ELSE ((f \ {m.incoming.id})
          \cup {m.fills[i].id : i \in {j \in 1..Len(m.fills) : m.fills[j].left = 0}})
         \cup (IF m.incoming.size > 0 /\ m.remaining = 0
                THEN {m.incoming.id} ELSE {})

\* the event's effect e becomes the next state; an id is reused if the
\* incoming order of match_limit carries an id resting in a book
Apply(e) ==
    /\ filled'  = FilledAfter(filled, e.mcall)
    /\ books'   = e.books
    /\ id_map'  = e.id_map
    /\ ccall'   = e.ccall
    /\ mcall'   = e.mcall
    /\ noReuse' = (noReuse /\ (e.mcall.called =>
                      ~IdRests(MapInsert(books, e.mcall.symbol, e.mcall.pre),
                               e.mcall.incoming.id)))

\* Handle with the counters moved into the arms: a miss counts nothing
Handle_CountOnHit(kind, e) ==
    /\ stats' = IF e.ccall.called \/ e.mcall.called THEN Count(stats, kind)
                ELSE stats
    /\ Apply(e)

\* the whole of handle: the counters first, then the arm's effect e
Handle(kind, e) ==
    /\ stats' = Count(stats, kind)
    /\ Apply(e)

\* ---------------------------------------------------------------- actions
Init ==
    /\ run     = NotRunning
    /\ books   = EmptyMap
    /\ id_map  = EmptyMap
    /\ stats   = NewStats
    /\ lastEv  = NoEvent
    /\ ccall   = NoCancelCall
    /\ mcall   = NoMatchCall
    /\ noReuse = TRUE
    /\ filled  = {}

\* handle(OrderEvent::New { timestamp, id, symbol, side, price, size })
HandleNew(id, symbol, side, price, size) ==
    /\ Handled < MaxEvents
    /\ Handle("New", EngineNew(books, id_map, Timestamp, id, symbol, side, price, size))
    /\ lastEv'  = [kind |-> "New", id |-> id, new_id |-> 0, symbol |-> symbol,
                   side |-> side, price |-> price, size |-> size, hit |-> TRUE]
    /\ UNCHANGED run

\* handle(OrderEvent::Cancel { timestamp, id, size })
HandleCancel(id, size) ==
    /\ Handled < MaxEvents
    /\ Handle("Cancel", EngineCancel(books, id_map, id, size))
    /\ lastEv'  = [kind |-> "Cancel", id |-> id, new_id |-> 0, symbol |-> 0,
                   side |-> "Buy", price |-> 0, size |-> size,
                   hit |-> id \in DOMAIN id_map]
    /\ UNCHANGED run

\* handle(OrderEvent::Replace { timestamp, old_id, new_id, new_size, new_price })
HandleReplace(old_id, new_id, new_size, new_price) ==
    /\ Handled < MaxEvents
    /\ Handle("Replace", EngineReplace(books, id_map, Timestamp, old_id,
                                        new_id, new_size, new_price))
    /\ lastEv'  = [kind |-> "Replace", id |-> old_id, new_id |-> new_id,
                   symbol |-> 0, side |-> "Buy", price |-> new_price,
                   size |-> new_size, hit |-> old_id \in DOMAIN id_map]
    /\ UNCHANGED run

Next ==
    \/ \E id \in Ids, symbol \in Symbols, side \in Side, price \in Prices,
          size \in Sizes : HandleNew(id, symbol, side, price, size)
    \/ \E id \in Ids, size \in Sizes : HandleCancel(id, size)
    \/ \E old_id \in Ids, new_id \in Ids, new_size \in Sizes,
          new_price \in Prices : HandleReplace(old_id, new_id, new_size, new_price)

Spec == Init /\ [][Next]_vars

\* ------------------------------------ match_limit, one iteration at a time
\* The same engine with the loops of match_limit taken one iteration per
\* step; run.pc is the place in match_limit: "loop" at the head of the outer
\* loop, "drain" at the head of the inner loop, "level" after the inner
\* loop, "rest" after the outer loop, "idle" outside match_limit.
observed == <<lastEv, ccall, mcall, noReuse, filled>>

\* the side of the book an incoming order of this side trades against
Opp(book, side) == IF side = "Buy" THEN book.asks ELSE book.bids

\* the book with that side and the index replaced
WithOpp(book, side, levels, index) ==
    IF side = "Buy" THEN [book EXCEPT !.asks = levels, !.index = index]
    ELSE [book EXCEPT !.bids = levels, !.index = index]

\* let mut remaining = incoming.size
Enter(symbol, book, incoming) ==
    [pc |-> "loop", symbol |-> symbol, incoming |-> incoming, pre |-> book,
     price |-> 0, remaining |-> incoming.size]

\* handle(New) up to the call of match_limit
StartNew(id, symbol, side, price, size) ==
    /\ run.pc = "idle"
    /\ Handled < MaxEvents
    /\ stats' = Count(stats, "New")
    /\ books' = MapInsert(books, symbol, BookOf(books, symbol))
    /\ run' = Enter(symbol, BookOf(books, symbol),
                    Order(id, side, price, size, Timestamp))
    /\ UNCHANGED <<id_map, observed>>

\* the books and id_map of the effect e become the next state
StepTo(e) == books' = e.books /\ id_map' = e.id_map

\* handle(Cancel), whole
StepCancel(id, size) ==
    /\ run.pc = "idle"
    /\ Handled < MaxEvents
    /\ stats' = Count(stats, "Cancel")
    /\ StepTo(EngineCancel(books, id_map, id, size))
    /\ UNCHANGED <<run, observed>>

\* the Replace arm after "Cancel old fully", r being the result of
\* handle_cancel: id_map.remove(&old_id), then match_limit is entered
ReplaceEnter(old_id, symbol, order, r) ==
    /\ books' = [books EXCEPT ![symbol] = r.book]
    /\ id_map' = MapRemove(id_map, old_id)
    /\ run' = Enter(symbol, r.book, order)

\* handle(Replace) up to the call of match_limit
StartReplace(old_id, new_id, new_size, new_price) ==
    /\ run.pc = "idle"
    /\ Handled < MaxEvents
    /\ stats' = Count(stats, "Replace")
    /\ IF old_id \in DOMAIN id_map /\ id_map[old_id].symbol \in DOMAIN books
       THEN ReplaceEnter(old_id, id_map[old_id].symbol,
                         Order(new_id, id_map[old_id].side, new_price,
                               new_size, Timestamp),
                         HandleCancelBook(books[id_map[old_id].symbol],
                                          old_id, U32_MAX))
       ELSE UNCHANGED <<books, id_map, run>>
    /\ UNCHANGED observed

\* the head of the outer loop: the best opposite price, break if none crosses
LoopHead ==
    /\ run.pc = "loop"
    /\ run' = IF Crosses(run.incoming.side,
                         Opp(books[run.symbol], run.incoming.side),
                         run.incoming.price)
              THEN [run EXCEPT !.pc = "drain",
                               !.price = IF run.incoming.side = "Buy"
                                         THEN BestAsk(books[run.symbol].asks)
                                         ELSE BestBid(books[run.symbol].bids)]
              ELSE [run EXCEPT !.pc = "rest"]
    /\ UNCHANGED <<books, id_map, stats, observed>>

\* the state of the inner loop at the level run.price
Draining ==
    [queue     |-> Opp(books[run.symbol], run.incoming.side)[run.price],
     remaining |-> run.remaining,
     index     |-> books[run.symbol].index,
     fills     |-> <<>>]

\* the inner loop has gone from Draining to d
DrainedTo(d) ==
    /\ books' = [books EXCEPT ![run.symbol] =
                    WithOpp(books[run.symbol], run.incoming.side,
                            [Opp(books[run.symbol], run.incoming.side)
                                EXCEPT ![run.price] = d.queue],
                            d.index)]
    /\ run' = [run EXCEPT !.remaining = d.remaining]

\* the head of the inner loop: one more trade, or the loop is left
DrainStep ==
    /\ run.pc = "drain"
    /\ IF DrainGoesOn(Draining)
       THEN DrainedTo(DrainOne(Draining))
       ELSE run' = [run EXCEPT !.pc = "level"] /\ UNCHANGED books
    /\ UNCHANGED <<id_map, stats, observed>>

\* after the inner loop: remove the level if it is empty, break if nothing
\* remains, otherwise back to the head of the outer loop
LevelEnd ==
    /\ run.pc = "level"
    /\ books' = [books EXCEPT ![run.symbol] =
                    WithOpp(books[run.symbol], run.incoming.side,
                            RemoveIfEmpty(Opp(books[run.symbol],
                                              run.incoming.side), run.price),
                            books[run.symbol].index)]
    /\ run' = [run EXCEPT !.pc = IF LoopEnds(run.remaining) THEN "rest"
                                 ELSE "loop"]
    /\ UNCHANGED <<id_map, stats, observed>>

\* after the outer loop: insert the leftover, return to handle, which
\* records the id in id_map
Rest ==
    /\ run.pc = "rest"
    /\ books' = [books EXCEPT ![run.symbol] =
                    InsertLeftover(books[run.symbol], run.incoming,
                                   run.remaining)]
    /\ id_map' = MapInsert(id_map, run.incoming.id,
                           [symbol |-> run.symbol, side |-> run.incoming.side])
    /\ run' = NotRunning
    /\ UNCHANGED <<stats, observed>>

\* a step of the running call of match_limit
MatchStep == LoopHead \/ DrainStep \/ LevelEnd \/ Rest

NextStep ==
    \/ \E id \in Ids, symbol \in Symbols, side \in Side, price \in Prices,
          size \in Sizes : StartNew(id, symbol, side, price, size)
    \/ \E id \in Ids, size \in Sizes : StepCancel(id, size)
    \/ \E old_id \in Ids, new_id \in Ids, new_size \in Sizes,
          new_price \in Prices : StartReplace(old_id, new_id, new_size, new_price)
    \/ LoopHead
    \/ DrainStep
    \/ LevelEnd
    \/ Rest

\* handle runs on one thread and match_limit is an ordinary call: once it is
\* entered its next step is taken, so the steps of match_limit are weakly
\* fair.  Nothing obliges the stream to hold a next event.
SpecStep == Init /\ [][NextStep]_vars /\ WF_vars(MatchStep)

\* ------------------------------------------------- reading a book's state
\* the places (symbol, side, price, position) where an order with this id rests
PlacesOf(bs, id) ==
    UNION {{[symbol |-> s, side |-> r.side, price |-> r.price, pos |-> r.pos,
             order |-> r.order] : r \in {x \in RestingIn(bs[s]) : x.order.id = id}} :
           s \in DOMAIN bs}

\* the orders with this id resting in one book
InBook(book, id) == {r \in RestingIn(book) : r.order.id = id}

\* ============================================================== claims

\* C1 as stated: every id of id_map resolves to exactly one live order, in
\* one queue of the book of the recorded symbol, on the recorded side.  It is
\* read here in the case that favours it: no id was ever reused, and the id
\* came with an order of positive size (it rests or it was filled).
C1_EveryMappedIdIsLive ==
    noReuse =>
        \A id \in DOMAIN id_map :
            (id \in filled \/ PlacesOf(books, id) # {}) =>
                /\ Cardinality(PlacesOf(books, id)) = 1
                /\ \A x \in PlacesOf(books, id) :
                      /\ x.symbol = id_map[id].symbol
                      /\ x.side = id_map[id].side

\* C1 as amended: provided no New or Replace carried an id that was resting,
\* every id of id_map either has no resting order left (it was filled, or
\* came with size 0) or resolves to exactly one live order, in one queue of
\* the book of the recorded symbol, on the recorded side.
C1_MappedIdLiveOrGone ==
    noReuse =>
        \A id \in DOMAIN id_map :
            /\ Cardinality(PlacesOf(books, id)) <= 1
            /\ \A x \in PlacesOf(books, id) :
                  /\ x.symbol = id_map[id].symbol
                  /\ x.side = id_map[id].side
                  /\ x.order.side = id_map[id].side

\* C1 witness: with no id reused, one id of id_map is live and another one
\* was filled and is still in id_map.
C1_Witness ==
    /\ noReuse
    /\ \E a \in DOMAIN id_map, b \in DOMAIN id_map :
          /\ Cardinality(PlacesOf(books, a)) = 1
          /\ b \in filled
          /\ PlacesOf(books, b) = {}

\* C2: a Cancel or a Replace whose target is in id_map, was fully filled and
\* rests in no book leaves every book as it was and creates no order.  It is
\* read here in the case that favours it: no id was ever reused, and a
\* Replace carries a positive size and a new id.
C2_FilledTargetIsNoOp ==
    [][ ( /\ lastEv'.kind \in {"Cancel", "Replace"}
          /\ noReuse
          /\ lastEv'.kind = "Replace" =>
                (lastEv'.size > 0 /\ lastEv'.new_id # lastEv'.id)
          /\ lastEv'.id \in DOMAIN id_map
          /\ lastEv'.id \in filled
          /\ PlacesOf(books, lastEv'.id) = {} )
        => ( /\ books' = books
             /\ ~mcall'.called ) ]_vars

\* the Cancel half of C2 alone
C2_FilledCancelIsNoOp ==
    [][ ( /\ lastEv'.kind = "Cancel"
          /\ lastEv'.id \in DOMAIN id_map
          /\ lastEv'.id \in filled
          /\ PlacesOf(books, lastEv'.id) = {} )
        => ( /\ books' = books
             /\ id_map' = id_map
             /\ ~mcall'.called ) ]_vars

\* C3: provided no New or Replace carried an id that was resting, in every
\* book an id is a key of the index if and only if exactly one order with
\* that id sits in a queue; that queue is on the side and at the price the
\* index records, and the order's size is greater than zero.
C3_BookIndexInv ==
    noReuse =>
        \A s \in DOMAIN books :
            /\ \A id \in Ids :
                  id \in DOMAIN books[s].index
                      <=> Cardinality(InBook(books[s], id)) = 1
            /\ \A r \in RestingIn(books[s]) :
                  /\ r.order.id \in DOMAIN books[s].index
                  /\ books[s].index[r.order.id] = [side |-> r.side, price |-> r.price]
                  /\ r.order.side = r.side
                  /\ r.order.price = r.price
                  /\ r.order.size > 0

\* C3 witness: with no id reused, a match has traded, the resting order it
\* traded with is partly filled and still a key of the book's index.
C3_Witness ==
    /\ noReuse
    /\ mcall.called
    /\ \E i \in 1..Len(mcall.fills) :
          /\ mcall.fills[i].left > 0
          /\ mcall.fills[i].id \in DOMAIN books[mcall.symbol].index

\* ------------------------------------------ reading a call of match_limit
\* the side of the book the incoming order trades against, before the call
OppBefore(m) == IF m.incoming.side = "Buy" THEN m.pre.asks ELSE m.pre.bids

\* quantity traded by the fills before the i-th with the resting order that
\* arrived at timestamp ts
RECURSIVE FilledBefore(_, _, _)
FilledBefore(fills, i, ts) ==
    IF i <= 1 THEN 0
    ELSE FilledBefore(fills, i - 1, ts)
         + (IF fills[i - 1].timestamp = ts THEN fills[i - 1].qty ELSE 0)

\* the position in queue of the order that arrived at timestamp ts, 0 if none
PosOf(queue, ts) ==
    IF \E k \in 1..Len(queue) : queue[k].timestamp = ts
    THEN CHOOSE k \in 1..Len(queue) : queue[k].timestamp = ts
    ELSE 0

\* every queue of the levels is in order of arrival
ArrivalOrder(levels) ==
    \A p \in DOMAIN levels : \A i \in 1..Len(levels[p]), j \in 1..Len(levels[p]) :
        i < j => levels[p][i].timestamp < levels[p][j].timestamp

\* C4: time priority within a level.  Every queue is in order of arrival,
\* and when match_limit trades with a resting order, every order that stood
\* before it in the queue of its price level has by then been traded down
\* to nothing, fill by fill.
C4_TimePriority ==
    /\ \A s \in DOMAIN books :
          ArrivalOrder(books[s].bids) /\ ArrivalOrder(books[s].asks)
    /\ mcall.called =>
          \A i \in 1..Len(mcall.fills) :
              /\ mcall.fills[i].price \in DOMAIN OppBefore(mcall)
              /\ PosOf(OppBefore(mcall)[mcall.fills[i].price],
                       mcall.fills[i].timestamp) > 0
              /\ \A k \in 1..Len(OppBefore(mcall)[mcall.fills[i].price]) :
                    k < PosOf(OppBefore(mcall)[mcall.fills[i].price],
                              mcall.fills[i].timestamp)
                    => FilledBefore(mcall.fills, i,
                          OppBefore(mcall)[mcall.fills[i].price][k].timestamp)
                       = OppBefore(mcall)[mcall.fills[i].price][k].size

\* C4 witness: one incoming order has traded with two orders of one level,
\* the earlier one first.
C4_Witness ==
    /\ mcall.called
    /\ Len(mcall.fills) >= 2
    /\ mcall.fills[1].price = mcall.fills[2].price
    /\ mcall.fills[1].timestamp < mcall.fills[2].timestamp

\* quantity traded by all the fills
RECURSIVE TradedTotal(_)
TradedTotal(fills) ==
    IF fills = <<>> THEN 0 ELSE Head(fills).qty + TradedTotal(Tail(fills))

\* the sizes of a queue added up
RECURSIVE QueueSize(_)
QueueSize(queue) ==
    IF queue = <<>> THEN 0 ELSE Head(queue).size + QueueSize(Tail(queue))

\* quantity traded at price p by the fills before the i-th
RECURSIVE TradedAtBefore(_, _, _)
TradedAtBefore(fills, i, p) ==
    IF i <= 1 THEN 0
    ELSE TradedAtBefore(fills, i - 1, p)
         + (IF fills[i - 1].price = p THEN fills[i - 1].qty ELSE 0)

\* C5: price priority across levels.  An incoming Buy trades with a resting
\* ask at price p only if p <= its limit and every ask level below p has by
\* then been traded away entirely; an incoming Sell trades with a bid at p
\* only if p >= its limit and every bid level above p has been traded away.
C5_PricePriority ==
    mcall.called =>
        \A i \in 1..Len(mcall.fills) :
            /\ IF mcall.incoming.side = "Buy"
               THEN mcall.fills[i].price <= mcall.incoming.price
               ELSE mcall.fills[i].price >= mcall.incoming.price
            /\ \A q \in DOMAIN OppBefore(mcall) :
                  (IF mcall.incoming.side = "Buy"
                   THEN q < mcall.fills[i].price
                   ELSE q > mcall.fills[i].price)
                  => TradedAtBefore(mcall.fills, i, q)
                     = QueueSize(OppBefore(mcall)[q])

\* C5 witness: an incoming Buy has traded at two ask levels, the lower first.
C5_Witness ==
    /\ mcall.called
    /\ mcall.incoming.side = "Buy"
    /\ Len(mcall.fills) >= 2
    /\ mcall.fills[1].price < mcall.fills[2].price

\* C6: no price key of the bids or asks of any book maps to an empty queue.
C6_NoEmptyLevels ==
    \A s \in DOMAIN books :
        /\ \A p \in DOMAIN books[s].bids : books[s].bids[p] # <<>>
        /\ \A p \in DOMAIN books[s].asks : books[s].asks[p] # <<>>

\* C6 witness: a cancel has removed the last order of a bid level, and a
\* match has traded away an ask level.
C6_Witness ==
    \/ /\ ccall.called /\ ccall.ret /\ ~mcall.called
       /\ ccall.pre.bids # EmptyMap
       /\ books[ccall.symbol].bids = EmptyMap
    \/ /\ mcall.called /\ mcall.fills # <<>>
       /\ mcall.pre.asks # EmptyMap
       /\ books[mcall.symbol].asks = EmptyMap

\* the sizes of all queues of the levels added up
RECURSIVE LevelsSizeUpTo(_, _)
LevelsSizeUpTo(levels, n) ==
    IF n = 0 THEN 0
    ELSE LevelsSizeUpTo(levels, n - 1)
         + (IF n \in DOMAIN levels THEN QueueSize(levels[n]) ELSE 0)

LevelsSize(levels) == LevelsSizeUpTo(levels, MaxPrice)

\* the size with which the order that arrived at timestamp ts rests in the
\* levels, 0 if it does not
SizeOf(levels, side, ts) ==
    IF \E r \in RestingOn(levels, side) : r.order.timestamp = ts
    THEN (CHOOSE r \in RestingOn(levels, side) : r.order.timestamp = ts).order.size
    ELSE 0

\* the two sides of the book after the call m of match_limit
OppAfter(m) ==
    IF m.incoming.side = "Buy" THEN books[m.symbol].asks ELSE books[m.symbol].bids

OwnAfter(m) ==
    IF m.incoming.side = "Buy" THEN books[m.symbol].bids ELSE books[m.symbol].asks

\* C7: partial fill conservation.  For the call of match_limit with incoming
\* size s, the quantity traded plus the size with which the incoming order
\* rests afterwards (0 if it does not rest) is s; every resting order of the
\* opposite side has lost exactly what was traded with it, and the sizes
\* lost on that side add up to the quantity traded.
C7_Conservation ==
    mcall.called =>
        /\ TradedTotal(mcall.fills)
               + SizeOf(OwnAfter(mcall), mcall.incoming.side,
                        mcall.incoming.timestamp)
           = mcall.incoming.size
        /\ \A r \in RestingOn(OppBefore(mcall), "Opp") :
              r.order.size - SizeOf(OppAfter(mcall), "Opp", r.order.timestamp)
              = FilledBefore(mcall.fills, Len(mcall.fills) + 1, r.order.timestamp)
        /\ LevelsSize(OppBefore(mcall)) - LevelsSize(OppAfter(mcall))
           = TradedTotal(mcall.fills)

\* C7 witness: the incoming order has traded part of its size and rests with
\* the remainder.
C7_Witness ==
    /\ mcall.called
    /\ mcall.fills # <<>>
    /\ mcall.remaining > 0
    /\ mcall.remaining < mcall.incoming.size

\* C8: a Cancel whose id, or a Replace whose old_id, is not a key of id_map
\* changes no book and no entry of id_map and creates no order; only the
\* counter of the event's kind changes, by one.
C8_MissIsNoOp ==
    [][ ( /\ lastEv'.kind \in {"Cancel", "Replace"}
          /\ lastEv'.id \notin DOMAIN id_map )
        => ( /\ books' = books
             /\ id_map' = id_map
             /\ ~mcall'.called
             /\ ~ccall'.called
             /\ stats' = IF lastEv'.kind = "Cancel"
                         THEN [stats EXCEPT !.total_cancel = @ + 1]
                         ELSE [stats EXCEPT !.total_replace = @ + 1] ) ]_vars

\* C8 witness: a Replace has missed while a book held a resting order.
C8_Witness ==
    /\ lastEv.kind = "Replace"
    /\ lastEv.id \notin DOMAIN id_map
    /\ ~lastEv.hit
    /\ \E s \in DOMAIN books : RestingIn(books[s]) # {}

\* a queue without the orders of this id
RECURSIVE QueueWithout(_, _)
QueueWithout(queue, id) ==
    IF queue = <<>> THEN <<>>
    ELSE (IF Head(queue).id = id THEN <<>> ELSE <<Head(queue)>>)
         \o QueueWithout(Tail(queue), id)

\* levels without the orders of this id, and without the levels this empties
LevelsWithout(levels, id) ==
    [p \in {q \in DOMAIN levels : QueueWithout(levels[q], id) # <<>>} |->
        QueueWithout(levels[p], id)]

\* a book from which every trace of this id is gone
BookWithout(book, id) ==
    [bids  |-> LevelsWithout(book.bids, id),
     asks  |-> LevelsWithout(book.asks, id),
     index |-> [x \in DOMAIN book.index \ {id} |-> book.index[x]]]

\* What C9 says of a step that handles Replace(old, new, size, price) when
\* old is mapped to (sym, side): old is gone from the book and from id_map,
\* and the order new has gone through match_limit as a fresh order.
C9_Replaced(old, new, size, price, sym, side) ==
    /\ InBook(books'[sym], old) = {}
    /\ old \notin DOMAIN books'[sym].index
    /\ old \notin DOMAIN id_map'
    /\ mcall'.called
    /\ mcall'.symbol = sym
    /\ mcall'.incoming = Order(new, side, price, size, Timestamp)
    /\ mcall'.pre = BookWithout(books[sym], old)
    /\ books' = [books EXCEPT ![sym] =
                    MatchLimit(BookWithout(books[sym], old),
                               Order(new, side, price, size, Timestamp)).book]
    /\ (mcall'.fills # <<>>)
          <=> (size > 0 /\ Crosses(side, OppBefore(mcall'), price))
    /\ mcall'.remaining > 0 =>
          /\ price \in DOMAIN (IF side = "Buy" THEN books'[sym].bids
                                               ELSE books'[sym].asks)
          /\ LET q == (IF side = "Buy" THEN books'[sym].bids
                                       ELSE books'[sym].asks)[price]
             IN  q[Len(q)] = Order(new, side, price, mcall'.remaining, Timestamp)
    /\ new \in DOMAIN id_map'
    /\ id_map'[new] = [symbol |-> sym, side |-> side]

\* C9 as stated: a Replace whose old_id is in id_map and rests in its book
\* leaves old_id in no queue, not in the book index and not in id_map, and
\* runs new_id through match_limit as a fresh order of the same symbol and
\* side, recorded in id_map.  It is read here in the case that favours it:
\* no id was reused before the Replace.
C9_ReplaceOfLiveOrder ==
    [][ ( /\ lastEv'.kind = "Replace"
          /\ noReuse
          /\ lastEv'.id \in DOMAIN id_map
          /\ InBook(books[id_map[lastEv'.id].symbol], lastEv'.id) # {} )
        => C9_Replaced(lastEv'.id, lastEv'.new_id, lastEv'.size, lastEv'.price,
                       id_map[lastEv'.id].symbol, id_map[lastEv'.id].side) ]_vars

\* C9 as amended: the same, provided new_id differs from old_id and no New
\* or Replace before it carried an id that was resting.
C9_ReplaceOfLiveOrderNewId ==
    [][ ( /\ lastEv'.kind = "Replace"
          /\ noReuse
          /\ lastEv'.new_id # lastEv'.id
          /\ lastEv'.id \in DOMAIN id_map
          /\ InBook(books[id_map[lastEv'.id].symbol], lastEv'.id) # {} )
        => C9_Replaced(lastEv'.id, lastEv'.new_id, lastEv'.size, lastEv'.price,
                       id_map[lastEv'.id].symbol, id_map[lastEv'.id].side) ]_vars

\* C9 witness: a Replace with a new id has removed a live order, and the new
\* order has traded and rests with its remainder.
C9_Witness ==
    /\ lastEv.kind = "Replace"
    /\ lastEv.new_id # lastEv.id
    /\ ccall.called /\ ccall.ret
    /\ InBook(ccall.pre, lastEv.id) # {}
    /\ mcall.fills # <<>>
    /\ mcall.remaining > 0
    /\ lastEv.new_id \in DOMAIN books[mcall.symbol].index

\* What C10 says of the call c of handle_cancel.
C10_Cancelled(c) ==
    /\ \A r \in InBook(c.pre, c.id) :
          IF c.size >= r.order.size
          THEN /\ c.ret
               /\ c.id \notin DOMAIN c.post.index
               /\ \A x \in RestingIn(c.post) :
                     x.order.timestamp # r.order.timestamp
          ELSE ~c.ret
    /\ c.id \notin DOMAIN c.pre.index => (c.post = c.pre /\ ~c.ret)
    /\ c.ret => InBook(c.post, c.id) = {}

\* C10 as stated: for an id resting with remaining size r, handle_cancel
\* with size >= r removes the order from its queue and from the index and
\* returns true, with size < r it returns false; for an id not in the index
\* it changes nothing and returns false; so it returns true only if no
\* order of that id is left.
C10_CancelReturn == ccall.called => C10_Cancelled(ccall)

\* C10 as amended: the same, provided no New or Replace carried an id that
\* was resting.
C10_CancelReturnNoReuse == (noReuse /\ ccall.called) => C10_Cancelled(ccall)

\* C10 witness: with no id reused, a Cancel of exactly the remaining size has
\* removed the order from its queue and from the index and returned true.
C10_Witness ==
    /\ noReuse
    /\ lastEv.kind = "Cancel"
    /\ ccall.called /\ ccall.ret
    /\ \E r \in InBook(ccall.pre, ccall.id) : r.order.size = ccall.size
    /\ InBook(ccall.post, ccall.id) = {}

\* the book with the size of the order at place r set to n
ResizedAt(book, r, n) ==
    IF r.side = "Buy"
    THEN [book EXCEPT !.bids[r.price][r.pos].size = n]
    ELSE [book EXCEPT !.asks[r.price][r.pos].size = n]

\* What C11 says of the call c of handle_cancel: if the size is smaller than
\* the remaining size of the order, the book afterwards is the book before
\* with that order's size reduced and nothing else changed.
C11_Framed(c) ==
    \A r \in InBook(c.pre, c.id) :
        c.size < r.order.size =>
            c.post = ResizedAt(c.pre, r, r.order.size - c.size)

\* C11 as stated: handle_cancel(id, size) with size smaller than the order's
\* remaining size r leaves the order in the same queue at the same position
\* with size r - size, and every other order, every other level, the
\* opposite side and the index unchanged.
C11_PartialCancelFrame == ccall.called => C11_Framed(ccall)

\* C11 as amended: the same, provided no New or Replace carried an id that
\* was resting.
C11_PartialCancelFrameNoReuse == (noReuse /\ ccall.called) => C11_Framed(ccall)

\* C11 witness: with no id reused, a Cancel has taken part of the size of the
\* order at the front of a queue of two, which is still at the front.
C11_Witness ==
    /\ noReuse
    /\ lastEv.kind = "Cancel"
    /\ ccall.called /\ ~ccall.ret /\ ccall.size > 0
    /\ \E r \in InBook(ccall.pre, ccall.id) :
          /\ r.pos = 1
          /\ r.side = "Buy"
          /\ Len(ccall.pre.bids[r.price]) = 2
          /\ Len(ccall.post.bids[r.price]) = 2
          /\ ccall.post.bids[r.price][1].id = ccall.id
          /\ ccall.post.bids[r.price][1].size = r.order.size - ccall.size

\* C12: provided no New or Replace introduced an id that was resting, no
\* order resting in any book has an id that is absent from id_map (and
\* id_map records for it the symbol of the book it rests in and its side).
C12_RestingIdsAreMapped ==
    noReuse =>
        \A s \in DOMAIN books : \A r \in RestingIn(books[s]) :
            /\ r.order.id \in DOMAIN id_map
            /\ id_map[r.order.id] = [symbol |-> s, side |-> r.side]

\* C12 witness: with no id reused, a Cancel has taken part of an order that
\* still rests, while an order of another id rests too; both are in id_map.
C12_Witness ==
    /\ noReuse
    /\ lastEv.kind = "Cancel"
    /\ ccall.called /\ ~ccall.ret /\ ccall.size > 0
    /\ InBook(ccall.post, ccall.id) # {}
    /\ ccall.id \in DOMAIN id_map
    /\ \E s \in DOMAIN books : \E r \in RestingIn(books[s]) :
          r.order.id # ccall.id /\ r.order.id \in DOMAIN id_map

\* the incoming order's own side of the book before the call m of match_limit
OwnBefore(m) == IF m.incoming.side = "Buy" THEN m.pre.bids ELSE m.pre.asks

\* the queue at price p, empty if there is no such level
QueueAt(levels, p) == IF p \in DOMAIN levels THEN levels[p] ELSE <<>>

\* the incoming order of the call m (known by its arrival ordinal) rests
\* nowhere in the book of its symbol
IncomingRestsNowhere(m) ==
    \A r \in RestingIn(books[m.symbol]) :
        r.order.timestamp # m.incoming.timestamp

\* The first half of C13: with a remainder, the queue at the incoming
\* order's price on its own side is the queue before the call with the
\* incoming order, its size the remainder, appended; the index maps its id to
\* that (side, price).
C13_RemainderRests(m) ==
    m.remaining > 0 =>
        /\ QueueAt(OwnAfter(m), m.incoming.price)
           = Append(QueueAt(OwnBefore(m), m.incoming.price),
                    [m.incoming EXCEPT !.size = m.remaining])
        /\ m.incoming.id \in DOMAIN books[m.symbol].index
        /\ books[m.symbol].index[m.incoming.id]
           = [side |-> m.incoming.side, price |-> m.incoming.price]

\* C13 as stated: after match_limit, an incoming order with remaining size
\* > 0 is the last element of the queue at its limit price on its own side,
\* behind every order already resting there, with the remainder as size, and
\* the index maps its id to that (side, price); with remaining size 0 it is
\* in no queue and its id is not in the book index.  It is read here in the
\* case that favours it: the incoming order came with a positive size.
C13_RestingOfRemainder ==
    (mcall.called /\ mcall.incoming.size > 0) =>
        /\ C13_RemainderRests(mcall)
        /\ mcall.remaining = 0 =>
              /\ IncomingRestsNowhere(mcall)
              /\ mcall.incoming.id \notin DOMAIN books[mcall.symbol].index

\* C13 as amended: the same, but with remaining size 0 the id is absent from
\* the book index provided no order with that id was resting in the book
\* when match_limit was called.
C13_RestingOfRemainderFreshId ==
    mcall.called =>
        /\ C13_RemainderRests(mcall)
        /\ mcall.remaining = 0 =>
              /\ IncomingRestsNowhere(mcall)
              /\ InBook(mcall.pre, mcall.incoming.id) = {} =>
                    mcall.incoming.id \notin DOMAIN books[mcall.symbol].index

\* C13 witness: the incoming order rests with a remainder behind an order
\* that was already resting at its price.
C13_Witness ==
    /\ mcall.called
    /\ mcall.remaining > 0
    /\ Len(QueueAt(OwnBefore(mcall), mcall.incoming.price)) >= 1
    /\ Len(QueueAt(OwnAfter(mcall), mcall.incoming.price)) >= 2

\* C14: a Cancel(id, size) whose id is in id_map calls handle_cancel(id, size)
\* on the book of the symbol id_map records; the id is erased from id_map if
\* and only if that call returns true, no other entry changes, and after a
\* partial cancel the id is still in id_map with its symbol and side.
C14_CancelAndIdMap ==
    [][ ( /\ lastEv'.kind = "Cancel"
          /\ lastEv'.id \in DOMAIN id_map )
        => ( /\ ccall'.called
             /\ ccall'.id = lastEv'.id
             /\ ccall'.size = lastEv'.size
             /\ ccall'.symbol = id_map[lastEv'.id].symbol
             /\ ccall'.pre = books[ccall'.symbol]
             /\ books'[ccall'.symbol] = ccall'.post
             /\ (lastEv'.id \notin DOMAIN id_map') <=> ccall'.ret
             /\ id_map' = IF ccall'.ret THEN MapRemove(id_map, lastEv'.id)
                          ELSE id_map ) ]_vars

\* C14 witness: a Cancel has taken part of a resting order, handle_cancel
\* returned false and id_map still maps the id to the book's symbol.
C14_Witness ==
    /\ lastEv.kind = "Cancel"
    /\ lastEv.hit
    /\ ccall.called /\ ~ccall.ret
    /\ \E r \in InBook(ccall.pre, ccall.id) :
          ccall.size > 0 /\ ccall.size < r.order.size
    /\ ccall.id \in DOMAIN id_map
    /\ id_map[ccall.id].symbol = ccall.symbol

\* C15: immediately after a New(id, symbol, side, ...) event id_map maps id
\* to (symbol, side), whatever became of the order (it rests, it rests partly
\* filled, or it was filled on arrival), every other entry of id_map is as
\* before, and a book for symbol exists: the one there was, or else a new
\* empty one, on which match_limit has run.
C15_NewRecordsId ==
    [][ lastEv'.kind = "New"
        => ( /\ lastEv'.id \in DOMAIN id_map'
             /\ id_map'[lastEv'.id]
                = [symbol |-> lastEv'.symbol, side |-> lastEv'.side]
             /\ \A i \in DOMAIN id_map \ {lastEv'.id} :
                   i \in DOMAIN id_map' /\ id_map'[i] = id_map[i]
             /\ DOMAIN id_map' = DOMAIN id_map \cup {lastEv'.id}
             /\ lastEv'.symbol \in DOMAIN books'
             /\ mcall'.called
             /\ mcall'.symbol = lastEv'.symbol
             /\ mcall'.pre = IF lastEv'.symbol \in DOMAIN books
                             THEN books[lastEv'.symbol] ELSE NewBook ) ]_vars

\* C15 witness: a New of positive size was filled completely on arrival,
\* rests nowhere, and its id is in id_map with the event's symbol and side.
C15_Witness ==
    /\ lastEv.kind = "New"
    /\ lastEv.size > 0
    /\ mcall.called /\ mcall.remaining = 0 /\ mcall.fills # <<>>
    /\ PlacesOf(books, lastEv.id) = {}
    /\ lastEv.id \in DOMAIN id_map
    /\ id_map[lastEv.id] = [symbol |-> lastEv.symbol, side |-> lastEv.side]

\* the counters after one more event of this kind
C16_Counted(st, kind) ==
    [total_new     |-> st.total_new     + (IF kind = "New" THEN 1 ELSE 0),
     total_cancel  |-> st.total_cancel  + (IF kind = "Cancel" THEN 1 ELSE 0),
     total_replace |-> st.total_replace + (IF kind = "Replace" THEN 1 ELSE 0)]

\* C16: the three counters start at zero and every event, one whose id does
\* not resolve included, adds one to the counter of its kind and leaves the
\* other two alone; so the counters equal the numbers of New, Cancel and
\* Replace events handled so far.
C16_Counters ==
    /\ stats = [total_new |-> 0, total_cancel |-> 0, total_replace |-> 0]
    /\ [][ /\ lastEv'.kind \in {"New", "Cancel", "Replace"}
           /\ stats' = C16_Counted(stats, lastEv'.kind) ]_vars

\* C16 witness: one event of each kind was handled, the last one a miss, and
\* each counter is 1.
C16_Witness ==
    /\ stats = [total_new |-> 1, total_cancel |-> 1, total_replace |-> 1]
    /\ lastEv.kind \in {"Cancel", "Replace"}
    /\ ~lastEv.hit

\* C17: once an event has been handled, in every book with a bid level and
\* an ask level the highest bid price is strictly lower than the lowest ask
\* price (every bid price is lower than every ask price).
C17_NeverCrossed ==
    \A s \in DOMAIN books :
        (DOMAIN books[s].bids # {} /\ DOMAIN books[s].asks # {}) =>
            /\ BestBid(books[s].bids) < BestAsk(books[s].asks)
            /\ \A b \in DOMAIN books[s].bids, a \in DOMAIN books[s].asks : b < a

\* C17 witness: match_limit has traded and left a book with orders resting
\* on both sides, the incoming order among them.
C17_Witness ==
    /\ mcall.called
    /\ mcall.fills # <<>>
    /\ mcall.remaining > 0
    /\ DOMAIN books[mcall.symbol].bids # {}
    /\ DOMAIN books[mcall.symbol].asks # {}

\* the symbols the event ev resolves to in the state with id_map im: the
\* event's symbol for New, the symbol im records for the target id for
\* Cancel and Replace, none if the id is not in im
C18_Target(ev, im) ==
    IF ev.kind = "New" THEN {ev.symbol}
    ELSE IF ev.id \in DOMAIN im THEN {im[ev.id].symbol}
    ELSE {}

\* C18: every event changes the book of at most one symbol, the one it
\* resolves to; the book of every other symbol is unchanged (bids, asks and
\* index), no book of another symbol appears, and the orders the incoming
\* order trades with were resting in the book of that one symbol.
C18_SymbolIsolation ==
    [][ /\ Cardinality(C18_Target(lastEv', id_map)) <= 1
        /\ \A s \in DOMAIN books \ C18_Target(lastEv', id_map) :
              s \in DOMAIN books' /\ books'[s] = books[s]
        /\ DOMAIN books' \subseteq DOMAIN books \cup C18_Target(lastEv', id_map)
        /\ mcall'.called =>
              /\ mcall'.symbol \in C18_Target(lastEv', id_map)
              /\ \A i \in 1..Len(mcall'.fills) :
                    \E r \in RestingIn(BookOf(books, mcall'.symbol)) :
                        r.order.timestamp = mcall'.fills[i].timestamp
        /\ ccall'.called => ccall'.symbol \in C18_Target(lastEv', id_map)
      ]_vars

\* C18 witness: an incoming order has traded in the book of its symbol while
\* the book of another symbol holds a resting order it could have traded
\* with at its price.
C18_Witness ==
    /\ mcall.called
    /\ mcall.fills # <<>>
    /\ \E s \in DOMAIN books \ {mcall.symbol} :
          \E r \in RestingIn(books[s]) :
              /\ r.side # mcall.incoming.side
              /\ r.price = mcall.incoming.price

\* every size of an order resting on these levels is a u32 that did not wrap
SizesInRange(book) ==
    \A r \in RestingIn(book) : r.order.size >= 0 /\ r.order.size <= U32_MAX

\* C19: no subtraction of sizes underflows.  The sizes are modelled in the
\* integers, where an underflow is a negative difference.  For every fill of
\* match_limit the quantity traded is at most the resting order's size
\* (left = size - trade_qty >= 0) and at most the incoming remainder
\* (rem = remaining - trade_qty >= 0); handle_cancel subtracts only a size
\* smaller than the order's, for a Cancel larger than the order and for the
\* u32::MAX of Replace included, so no order is left with a negative size
\* and a call that returns false has taken less than the order's size.
C19_NoUnderflow ==
    /\ \A i \in 1..Len(mcall.fills) :
          /\ mcall.fills[i].qty >= 0
          /\ mcall.fills[i].left >= 0
          /\ mcall.fills[i].rem >= 0
    /\ mcall.remaining >= 0
    /\ SizesInRange(ccall.post)
    /\ \A s \in DOMAIN books : SizesInRange(books[s])
    /\ \A r \in InBook(ccall.post, ccall.id) :
          \A q \in InBook(ccall.pre, ccall.id) :
              q.order.timestamp = r.order.timestamp =>
                  /\ r.order.size \in {q.order.size, q.order.size - ccall.size}
                  /\ r.order.size < q.order.size => ccall.size < q.order.size

\* C19 witness: a Replace has cancelled a resting order with size u32::MAX
\* and its new order has traded part of a larger resting order.
C19_Witness ==
    /\ lastEv.kind = "Replace"
    /\ ccall.called /\ ccall.ret /\ ccall.size = U32_MAX
    /\ InBook(ccall.pre, ccall.id) # {}
    /\ InBook(ccall.post, ccall.id) = {}
    /\ mcall.called
    /\ \E i \in 1..Len(mcall.fills) :
          mcall.fills[i].qty > 0 /\ mcall.fills[i].left > 0

\* SpecStep computes what MatchLimit computes: when the running call returns
\* the book is the one MatchLimit gives for the book and the order it was
\* entered with.
StepwiseIsMatchLimit ==
    [][ run.pc = "rest"
        => books'[run.symbol] = MatchLimit(run.pre, run.incoming).book ]_vars

\* C20: the crossing loop of match_limit finishes: a call that is running
\* (for any book reached and any incoming order, size 0 included) returns,
\* so the handling of the event completes; and each iteration of the outer
\* loop either removes the price level it worked on from the opposite side
\* or ends the loop.
C20_MatchingTerminates ==
    /\ (run.pc # "idle") ~> (run.pc = "idle")
    /\ [][ run.pc = "level"
           => \/ run'.pc = "rest"
              \/ /\ run.price \in DOMAIN Opp(books[run.symbol], run.incoming.side)
                 /\ DOMAIN Opp(books'[run.symbol], run.incoming.side)
                    = DOMAIN Opp(books[run.symbol], run.incoming.side)
                      \ {run.price} ]_vars

\* C20 witness: the outer loop is in its second iteration: the incoming
\* order has emptied one level, has size left and is about to trade at the
\* next level.
C20_Witness ==
    /\ run.pc = "drain"
    /\ run.remaining > 0
    /\ run.remaining < run.incoming.size
    /\ DOMAIN Opp(books[run.symbol], run.incoming.side)
       # DOMAIN Opp(run.pre, run.incoming.side)
    /\ DrainGoesOn(Draining)

====
